---- MODULE Spec2Model ----
(***************************************************************************)
(* Model of the two Entra Verified ID web services:                        *)
(*   issue-app/server.js  (POST /api/issue-credential, GET /api/user,      *)
(*                         GET /api/request-status/:id,                    *)
(*                         POST /api/request-callback, GET /health)        *)
(*   verify-app/server.js (POST /api/verify-credential,                    *)
(*                         GET /api/request-status/:id,                    *)
(*                         POST /api/verification-callback, GET /health)   *)
(* Each service is one Node.js process with its own requestStore Map.  A   *)
(* behaviour of this module is a run of ONE of the two processes: svc is   *)
(* chosen in Init and never changes.  A synchronous handler is one atomic  *)
(* action; an async handler is cut at its awaits.                          *)
(***************************************************************************)
EXTENDS Integers, Sequences, FiniteSets, TLC

VARIABLES
    svc,               \* which server.js this process runs: "issue" or "verify"
    env,               \* process.env as the process found it at startup
    phase,             \* "listening" after app.listen, "exited" after process.exit(1)
    requestStore,      \* the Map requestStore: key -> tracked request
    creates,           \* create requests received so far, each with its position
                       \* and the outbound calls made for it (calls)
    pendingCallbacks,  \* callback POSTs received whose body is still being parsed
    cbLog,             \* history: callback handler runs, in the order they ran
    issued,            \* the uuids uuidv4() has returned for requestId
    now,               \* the value the next new Date() returns
    lastResp           \* the HTTP response the latest step sent (NoResponse: none),
                       \* with req: the request parameter, state or header it answers

vars == <<svc, env, phase, requestStore, creates, pendingCallbacks, cbLog, issued, now, lastResp>>

----------------------------------------------------------------------------
(* Bounds of the model *)

\* create requests (POST /api/issue-credential, /api/verify-credential) per run
MaxCreates == 1
\* callback POSTs per run
MaxCallbacks == 2

----------------------------------------------------------------------------
(* JavaScript values.  Scalars are strings; Undefined and Null stand for the *)
(* JS values undefined and null.  An optional object-valued property is a    *)
(* sequence of length 0 (property absent) or 1 (property holds that object). *)

Undefined == "undefined"
Null == "null"
None == <<>>
Some(x) == <<x>>

\* JS truthiness of a scalar
Truthy(v) == v \notin {Undefined, Null, ""}

\* a || b on scalars
Or(a, b) == IF Truthy(a) THEN a ELSE b

\* the uuids uuidv4() can return in a run, and one key no create generated
UuidNames == <<"uuid-1", "uuid-2", "uuid-3", "uuid-4">>
Uuids == {UuidNames[i] : i \in 1..MaxCreates}
NonexistentId == "nonexistent-id"

\* what a status query may carry as :requestId
RequestParams == Uuids \cup {NonexistentId}
\* what a callback may carry as body.state (Undefined: no state property)
CallbackStates == RequestParams \cup {Undefined}

----------------------------------------------------------------------------
(* Startup: required settings and the PIN length (module top level) *)

\* issue-app/server.js requiredEnvVars / verify-app/server.js requiredEnvVars
requiredEnvVars(s) ==
    IF s = "issue"
    THEN {"AZURE_CLIENT_ID", "AZURE_CLIENT_SECRET", "AZURE_TENANT_ID",
          "DID_AUTHORITY", "CREDENTIAL_MANIFEST", "CREDENTIAL_TYPE"}
    ELSE {"AZURE_CLIENT_ID", "AZURE_CLIENT_SECRET", "AZURE_TENANT_ID",
          "DID_AUTHORITY", "CREDENTIAL_TYPE", "APP_URL"}

\* The environments of the model: env.set is the set of variables that have a
\* non-empty value, env.pin the text of ISSUANCE_PIN_CODE_LENGTH (Undefined:
\* not set).
AllEnvVars == requiredEnvVars("issue") \cup requiredEnvVars("verify")
EnvSets == {AllEnvVars, AllEnvVars \ {"DID_AUTHORITY"}}

\* const missingVars = requiredEnvVars.filter(varName => !process.env[varName])
missingVars(s, e) == requiredEnvVars(s) \ e.set

\* parseInt on the texts of the model: [nan, val].  parseInt reads the longest
\* prefix that is an integer, and yields NaN when there is none.
parseInt(text) ==
    CASE text = "0" -> [nan |-> FALSE, val |-> 0]
      [] text = "2" -> [nan |-> FALSE, val |-> 2]
      [] text = "6" -> [nan |-> FALSE, val |-> 6]
      [] text = "7" -> [nan |-> FALSE, val |-> 7]
      [] text = "-1" -> [nan |-> FALSE, val |-> 0 - 1]
      [] text = "3abc" -> [nan |-> FALSE, val |-> 3]
      [] OTHER -> [nan |-> TRUE, val |-> 0]

\* let pinCodeLength = 4; if (process.env.ISSUANCE_PIN_CODE_LENGTH) {...}
pinCodeLengthOf(e) ==
    IF ~Truthy(e.pin) THEN 4
    ELSE LET parsed == parseInt(e.pin)
         IN IF parsed.nan \/ parsed.val < 0 \/ parsed.val > 6 THEN 4 ELSE parsed.val

pinCodeLength == pinCodeLengthOf(env)

----------------------------------------------------------------------------
(* Callback payloads (req.body of the callback endpoints) *)

\* elements of verifiedCredentialsData: a JSON null, or an object whose
\* properties may be missing (Undefined); faceCheck is optional
NullCredential ==
    [js |-> "null", type |-> Undefined, issuer |-> Undefined, claims |-> Undefined,
     credentialSubject |-> Undefined, faceCheck |-> None]
CredentialJane ==
    [js |-> "object", type |-> "VerifiedEmployee", issuer |-> "did:web:issuer",
     claims |-> "claims:Jane Doe", credentialSubject |-> "subject:Jane Doe",
     faceCheck |-> None]
CredentialJohn ==
    [js |-> "object", type |-> Undefined, issuer |-> "did:web:issuer",
     claims |-> "claims:John Roe", credentialSubject |-> Undefined,
     faceCheck |-> Some([faceCheckPassed |-> "true", confidence |-> "85"])]

StatusCodes(s) ==
    IF s = "issue"
    THEN {"request_retrieved", "issuance_successful", "issuance_error"}
    ELSE {"request_retrieved", "presentation_verified", "presentation_error"}

\* hasVcd: the body has a verifiedCredentialsData property
NoVcd == [hasVcd |-> FALSE, verifiedCredentialsData |-> <<>>]
Vcd(list) == [hasVcd |-> TRUE, verifiedCredentialsData |-> list]

Body(state, code, v) ==
    [state |-> state, code |-> code, hasVcd |-> v.hasVcd,
     verifiedCredentialsData |-> v.verifiedCredentialsData]

\* The payloads of the model.  The first uuid gets every shape of payload the
\* handlers distinguish; the other keys get one success and one error payload.
VcdValues ==
    {NoVcd, Vcd(<<>>), Vcd(<<NullCredential>>), Vcd(<<CredentialJane>>),
     Vcd(<<CredentialJohn, CredentialJane>>)}
CallbackBodies(s) ==
    IF s = "issue"
    THEN {Body(UuidNames[1], c, NoVcd) : c \in StatusCodes(s) \cup {Undefined}}
         \cup {Body(st, c, NoVcd) : st \in CallbackStates \ {UuidNames[1]},
                                    c \in {"issuance_successful", "issuance_error"}}
    ELSE {Body(UuidNames[1], "presentation_verified", v) : v \in VcdValues}
         \cup {Body(UuidNames[1], "presentation_error", v) :
                 v \in {NoVcd, Vcd(<<CredentialJohn, CredentialJane>>)}}
         \cup {Body(UuidNames[1], c, NoVcd) : c \in {"request_retrieved", Undefined}}
         \cup {Body(st, "presentation_verified", Vcd(<<CredentialJane>>)) :
                 st \in CallbackStates \ {UuidNames[1]}}
         \cup {Body(st, "presentation_error", NoVcd) :
                 st \in CallbackStates \ {UuidNames[1]}}

----------------------------------------------------------------------------
(* The callback handlers, as functions of the tracked request they find *)

\* issue-app POST /api/request-callback, the body of `if (request) {...}`:
\* request is the object held by the Map, so each assignment is a write to
\* the store.  Result: the request as left, and whether the handler threw.
requestCallbackUpdate(request, body, t) ==
    [request |-> [request EXCEPT !.status = body.code, !.updated = Some(t)],
     threw |-> FALSE]

\* a variant that withdraws the result when another code arrives
verificationCallbackUpdate_clearsResult(request, body, t) ==
    LET r1 == [request EXCEPT !.status = body.code, !.updated = Some(t)]
        vcd == body.verifiedCredentialsData
    IN  IF body.code = "presentation_verified" /\ body.hasVcd /\ Len(vcd) > 0
        THEN IF vcd[1].js = "null"
             THEN [request |-> r1, threw |-> TRUE]
             ELSE [request |->
                     [r1 EXCEPT !.verifiedCredential =
                                   Some([type |-> vcd[1].type, issuer |-> vcd[1].issuer,
                                         claims |-> vcd[1].claims,
                                         credentialSubject |-> vcd[1].credentialSubject]),
                                !.faceCheckResult =
                                   IF vcd[1].faceCheck # None
                                   THEN Some([faceCheckPassed |-> vcd[1].faceCheck[1].faceCheckPassed,
                                              confidence |-> vcd[1].faceCheck[1].confidence])
                                   ELSE @],
                   threw |-> FALSE]
        ELSE [request |-> [r1 EXCEPT !.verifiedCredential = None,
                                     !.faceCheckResult = None],
              threw |-> FALSE]

\* a variant that attaches the result whatever the code is
verificationCallbackUpdate_anyCode(request, body, t) ==
    LET r1 == [request EXCEPT !.status = body.code, !.updated = Some(t)]
        vcd == body.verifiedCredentialsData
    IN  IF body.hasVcd /\ Len(vcd) > 0 /\ vcd[1].js = "object"
        THEN [request |->
                [r1 EXCEPT !.verifiedCredential =
                              Some([type |-> vcd[1].type, issuer |-> vcd[1].issuer,
                                    claims |-> vcd[1].claims,
                                    credentialSubject |-> vcd[1].credentialSubject]),
                           !.faceCheckResult =
                              IF vcd[1].faceCheck # None
                              THEN Some([faceCheckPassed |-> vcd[1].faceCheck[1].faceCheckPassed,
                                         confidence |-> vcd[1].faceCheck[1].confidence])
                              ELSE @],
              threw |-> FALSE]
        ELSE [request |-> r1, threw |-> FALSE]

\* verify-app POST /api/verification-callback, the body of `if (request) {...}`.
\* credentialData.type on a null first element raises a TypeError after status
\* and updated were written and before verifiedCredential is.
verificationCallbackUpdate(request, body, t) ==
    LET r1 == [request EXCEPT !.status = body.code, !.updated = Some(t)]
        vcd == body.verifiedCredentialsData
    IN  IF body.code = "presentation_verified" /\ body.hasVcd /\ Len(vcd) > 0
        THEN LET credentialData == vcd[1]
                 r2 == [r1 EXCEPT !.verifiedCredential =
                          Some([type |-> credentialData.type,
                                issuer |-> credentialData.issuer,
                                claims |-> credentialData.claims,
                                credentialSubject |-> credentialData.credentialSubject])]
                 r3 == IF credentialData.faceCheck # None
                       THEN [r2 EXCEPT !.faceCheckResult =
                               Some([faceCheckPassed |-> credentialData.faceCheck[1].faceCheckPassed,
                                     confidence |-> credentialData.faceCheck[1].confidence])]
                       ELSE r2
             IN  IF credentialData.js = "null"
                 THEN [request |-> r1, threw |-> TRUE]
                 ELSE [request |-> r3, threw |-> FALSE]
        ELSE [request |-> r1, threw |-> FALSE]

\* a variant that also stamps the creation time
callbackUpdate_touchesCreated(s, request, body, t) ==
    LET out == IF s = "issue" THEN requestCallbackUpdate(request, body, t)
               ELSE verificationCallbackUpdate(request, body, t)
    IN  [request |-> [out.request EXCEPT !.created = t], threw |-> out.threw]

\* a variant that refuses to overwrite a terminal success status
callbackUpdate_guardTerminal(s, request, body, t) ==
    IF request.status \in {"issuance_successful", "presentation_verified"}
    THEN [request |-> request, threw |-> FALSE]
    ELSE IF s = "issue" THEN requestCallbackUpdate(request, body, t)
    ELSE verificationCallbackUpdate(request, body, t)

\* the dispatch on the service
callbackUpdate(s, request, body, t) ==
    IF s = "issue" THEN requestCallbackUpdate(request, body, t)
    ELSE verificationCallbackUpdate(request, body, t)

\* res.status(200).json({ message: ... }); a handler that throws is answered
\* by the framework's error handler with a 500 whose body is an HTML page
callbackResponse(s, threw) ==
    IF threw
    THEN [ep |-> "callback", http |-> 500, body |-> [html |-> "TypeError"]]
    ELSE [ep |-> "callback", http |-> 200,
          body |-> [message |-> IF s = "issue" THEN "Callback received"
                                ELSE "Verification callback received"]]

----------------------------------------------------------------------------
(* GET /api/request-status/:requestId *)

\* issue-app: 404 when the Map has no such key, else the record's fields
issueRequestStatus(store, requestId) ==
    IF requestId \notin DOMAIN store
    THEN [ep |-> "status", http |-> 404,
          body |-> [success |-> FALSE, error |-> "Request not found"]]
    ELSE LET request == store[requestId]
         IN [ep |-> "status", http |-> 200,
             body |-> [success |-> TRUE, requestId |-> requestId,
                       status |-> request.status, type |-> request.type,
                       created |-> request.created, pin |-> request.pin]]

\* verify-app: the same, with verifiedCredential || null and
\* faceCheckResult || null (None stands for the JSON null)
verifyRequestStatus(store, requestId) ==
    IF requestId \notin DOMAIN store
    THEN [ep |-> "status", http |-> 404,
          body |-> [success |-> FALSE, error |-> "Request not found"]]
    ELSE LET request == store[requestId]
         IN [ep |-> "status", http |-> 200,
             body |-> [success |-> TRUE, requestId |-> requestId,
                       status |-> request.status, type |-> request.type,
                       created |-> request.created,
                       verifiedCredential |-> request.verifiedCredential,
                       faceCheckResult |-> request.faceCheckResult]]

\* a variant that fails on a key the store does not hold
requestStatus_throwOnMissing(s, store, requestId) ==
    IF requestId \notin DOMAIN store
    THEN [ep |-> "status", http |-> 500, body |-> [message |-> "TypeError"]]
    ELSE IF s = "issue" THEN issueRequestStatus(store, requestId)
    ELSE verifyRequestStatus(store, requestId)

\* the dispatch on the service
requestStatus(s, store, requestId) ==
    IF s = "issue" THEN issueRequestStatus(store, requestId)
    ELSE verifyRequestStatus(store, requestId)

----------------------------------------------------------------------------
(* issue-app: the Easy Auth header and the protected routes' gate *)

\* Values of the x-ms-client-principal header.  kind says what the header
\* decodes to: "absent" (no header), "notjson" (JSON.parse throws), "null" and
\* "scalar" (JSON that is no object), "object".  claimsKind: whether the object
\* has no claims property, an array, or something that is no array.
Claim(typ, val) == [js |-> "object", typ |-> typ, val |-> val]
NullClaim == [js |-> "null", typ |-> Undefined, val |-> Undefined]
Header(kind, userDetails, claimsKind, claims) ==
    [kind |-> kind, userId |-> IF kind = "object" THEN "user-id" ELSE Undefined,
     userDetails |-> userDetails, identityProvider |-> Undefined,
     auth_typ |-> IF kind = "object" THEN "aad" ELSE Undefined,
     claimsKind |-> claimsKind, claims |-> claims]

HeaderAbsent == Header("absent", Undefined, "absent", <<>>)
HeaderJane ==
    Header("object", "jane@contoso.com", "array",
           <<Claim("name", "Jane Doe"), Claim("preferred_username", "jane@contoso.com"),
             Claim("given_name", "Jane")>>)
HeaderBob == Header("object", "bob@contoso.com", "absent", <<>>)
Headers ==
    {HeaderAbsent, HeaderJane, HeaderBob,
     Header("notjson", Undefined, "absent", <<>>),
     Header("null", Undefined, "absent", <<>>),
     Header("scalar", Undefined, "absent", <<>>),
     Header("object", "eve@contoso.com", "notarray", <<>>),
     Header("object", "eve@contoso.com", "array", <<Claim("name", "Eve"), NullClaim>>)}

\* const findClaim = (claimType) => { const claim = claims.find(c => c.typ ===
\* claimType); return claim ? claim.val : null; }   c.typ on a null element throws
findClaim(claims, claimType) ==
    LET hit == {i \in 1..Len(claims) :
                  claims[i].js = "null" \/ claims[i].typ = claimType}
    IN  IF hit = {} THEN [threw |-> FALSE, val |-> Null]
        ELSE LET i == CHOOSE k \in hit : \A j \in hit : k <= j
             IN IF claims[i].js = "null" THEN [threw |-> TRUE, val |-> Null]
                ELSE [threw |-> FALSE, val |-> claims[i].val]

\* findClaim(t1) || findClaim(t2) || ... || last, evaluated left to right
RECURSIVE firstClaim(_, _, _)
firstClaim(claims, types, last) ==
    IF types = <<>> THEN [threw |-> FALSE, val |-> last]
    ELSE LET r == findClaim(claims, Head(types))
         IN IF r.threw \/ Truthy(r.val) THEN r
            ELSE firstClaim(claims, Tail(types), last)

XmlSoap(n) ==
    CASE n = "emailaddress" -> "http://schemas.xmlsoap.org/ws/2005/05/identity/claims/emailaddress"
      [] n = "givenname" -> "http://schemas.xmlsoap.org/ws/2005/05/identity/claims/givenname"
      [] n = "surname" -> "http://schemas.xmlsoap.org/ws/2005/05/identity/claims/surname"
      [] n = "name" -> "http://schemas.xmlsoap.org/ws/2005/05/identity/claims/name"

\* parseEasyAuthUser(req): None is the null it returns (no header, or any
\* exception while decoding), Some(user) the user object
parseEasyAuthUser(h) ==
    IF h.kind \in {"absent", "notjson", "null"} THEN None
    ELSE IF h.claimsKind = "notarray" THEN None
    ELSE LET claims == h.claims
             name == firstClaim(claims, <<"name">>, h.userDetails)
             email == firstClaim(claims, <<XmlSoap("emailaddress"), "email",
                                           "preferred_username">>, h.userDetails)
             givenName == firstClaim(claims, <<XmlSoap("givenname"), "given_name">>,
                                     Null)
             surname == firstClaim(claims, <<XmlSoap("surname"), "family_name">>,
                                   Null)
             upn == firstClaim(claims, <<XmlSoap("name"), "upn">>, h.userDetails)
         IN IF name.threw \/ email.threw \/ givenName.threw \/ surname.threw \/ upn.threw
            THEN None
            ELSE Some([userId |-> h.userId, userDetails |-> h.userDetails,
                       identityProvider |-> Or(h.identityProvider, h.auth_typ),
                       name |-> name.val, email |-> email.val,
                       givenName |-> givenName.val, surname |-> surname.val,
                       userPrincipalName |-> upn.val, isAuthenticated |-> TRUE])

\* a variant that refuses with 403
authRequired_forbidden(ep) ==
    [ep |-> ep, http |-> 403,
     body |-> [error |-> "Authentication required",
               message |-> "Please sign in through Azure App Service authentication"]]

\* requireEasyAuth's refusal
authRequired(ep) ==
    [ep |-> ep, http |-> 401,
     body |-> [error |-> "Authentication required",
               message |-> "Please sign in through Azure App Service authentication"]]

----------------------------------------------------------------------------
(* issue-app: directory profile and photo (Microsoft Graph is an input) *)

\* what GET /users/{upn} answers: None when the call fails, else the document
GraphUserJane ==
    [displayName |-> "Jane Doe", givenName |-> "Jane", surname |-> "Doe",
     mail |-> "jane@contoso.com", jobTitle |-> "Engineer",
     preferredLanguage |-> "da-DK", userPrincipalName |-> "jane@contoso.com"]
GraphUserBob ==
    [displayName |-> "Bob", givenName |-> Null, surname |-> Null, mail |-> Null,
     jobTitle |-> Null, preferredLanguage |-> Null,
     userPrincipalName |-> "bob@contoso.com"]
GraphAnswers == {None, Some(GraphUserJane), Some(GraphUserBob)}

\* getUserProfile: the profile it returns from the Graph document
getUserProfile(user) ==
    [displayName |-> user.displayName, givenName |-> user.givenName,
     surname |-> user.surname, mail |-> Or(user.mail, user.userPrincipalName),
     jobTitle |-> Or(user.jobTitle, "Employee"),
     preferredLanguage |-> Or(user.preferredLanguage, "en-US"),
     userPrincipalName |-> user.userPrincipalName, photo |-> Null]

\* name?.split(' ')[0] and name?.split(' ').slice(1).join(' ') on the names of
\* the model
firstWord(name) ==
    CASE name \in {Undefined, Null} -> Undefined
      [] name = "Jane Doe" -> "Jane"
      [] OTHER -> name
restWords(name) ==
    CASE name \in {Undefined, Null} -> Undefined
      [] name = "Jane Doe" -> "Doe"
      [] OTHER -> ""

\* POST /api/issue-credential, the catch of the profile lookup
issueFallbackProfile(user) ==
    [displayName |-> user.name,
     givenName |-> Or(user.givenName, firstWord(user.name)),
     surname |-> Or(user.surname, restWords(user.name)),
     mail |-> user.email, jobTitle |-> "Employee", preferredLanguage |-> "en-US",
     userPrincipalName |-> Or(user.userPrincipalName, user.email),
     photo |-> Undefined]

\* GET /api/user, the catch of the profile lookup
userFallbackProfile(easyAuthUser) ==
    [displayName |-> Or(easyAuthUser.name, "Unknown User"),
     mail |-> Or(easyAuthUser.email, "No email"), jobTitle |-> "Employee",
     userPrincipalName |-> Or(easyAuthUser.userPrincipalName, easyAuthUser.email)]

\* a variant that tries the smallest size first
getUserPhoto_smallestFirst(avail) ==
    IF "48x48" \in avail THEN "b64uri:photo-48x48"
    ELSE IF "64x64" \in avail THEN "b64uri:photo-64x64"
    ELSE IF "96x96" \in avail THEN "b64uri:photo-96x96"
    ELSE IF "120x120" \in avail THEN "b64uri:photo-120x120"
    ELSE IF "240x240" \in avail THEN "b64uri:photo-240x240"
    ELSE IF "default" \in avail THEN "b64uri:photo-default"
    ELSE Null

\* getUserPhoto: avail is the set of photo resources Graph can serve
\* ("default" is /photo/$value); the result is the encoded photo or Null
photoSizes == <<"240x240", "120x120", "96x96", "64x64", "48x48">>
encodedPhoto(size) ==
    CASE size = "240x240" -> "b64uri:photo-240x240"
      [] size = "120x120" -> "b64uri:photo-120x120"
      [] size = "96x96" -> "b64uri:photo-96x96"
      [] size = "64x64" -> "b64uri:photo-64x64"
      [] size = "48x48" -> "b64uri:photo-48x48"
      [] OTHER -> "b64uri:photo-default"
getUserPhoto(avail) ==
    LET ok == {i \in 1..Len(photoSizes) : photoSizes[i] \in avail}
    IN  IF ok # {}
        THEN encodedPhoto(photoSizes[CHOOSE i \in ok : \A j \in ok : i <= j])
        ELSE IF "default" \in avail THEN encodedPhoto("default") ELSE Null
PhotoAvailabilities ==
    {{}, {"default"}, {"96x96", "48x48", "default"}}

\* headers sent to the protected routes that requireEasyAuth may refuse
RefusedHeaders == {HeaderAbsent}

\* the (header, Graph answer, photo availability) inputs of the protected routes
ProtectedInputs ==
    {<<HeaderJane, Some(GraphUserJane), {"96x96", "48x48", "default"}>>,
     <<HeaderJane, None, {"48x48"}>>,
     <<HeaderBob, Some(GraphUserBob), {}>>,
     <<HeaderBob, None, {}>>}

\* the userProfile POST /api/issue-credential hands to createIssuanceRequest
issueUserData(user, graph, avail) ==
    LET userProfile == IF graph = None THEN issueFallbackProfile(user)
                       ELSE getUserProfile(graph[1])
        userPhoto == getUserPhoto(avail)
    IN  IF Truthy(userPhoto) THEN [userProfile EXCEPT !.photo = userPhoto]
        ELSE userProfile

----------------------------------------------------------------------------
(* The create path: createIssuanceRequest / createVerificationRequest *)

RECURSIVE pow10(_)
pow10(n) == IF n = 0 THEN 1 ELSE 10 * pow10(n - 1)

\* Number.prototype.toString: the decimal digits of n >= 0, most significant first
RECURSIVE toString(_)
toString(n) == IF n < 10 THEN <<n>> ELSE Append(toString(n \div 10), n % 10)

\* Math.floor(Math.random() * (max - min + 1)) + min: the model draws the two
\* ends of the range
\* the values of Math.random() in the model, as fractions in [0, 1)
RandomDraws == {[num |-> 0, den |-> 1000], [num |-> 999, den |-> 1000]}

\* a variant that forgets the lower end of the range
pinCodes_fromZero(length) ==
    {(r.num * (pow10(length) - 1)) \div r.den : r \in RandomDraws}

\* const min = Math.pow(10, pinCodeLength - 1); const max = Math.pow(10,
\* pinCodeLength) - 1; Math.floor(Math.random() * (max - min + 1)) + min
pinCodes(length) ==
    LET min == pow10(length - 1)
        max == pow10(length) - 1
    IN  {((r.num * (max - min + 1)) \div r.den) + min : r \in RandomDraws}

\* issuanceRequest.pin: None when pinCodeLength is 0, else {value, length}
issuancePin(length, pinCode) ==
    IF length > 0 THEN Some([value |-> toString(pinCode), length |-> length])
    ELSE None

\* issuanceRequest.pin ? issuanceRequest.pin.value : null   (None: the null)
pinValue(pin) == IF pin # None THEN Some(pin[1].value) ELSE None

\* response.data of the platform's createIssuanceRequest/createPresentationRequest
platformData ==
    [url |-> "openid-vc://?request_uri=...", expiry |-> "expiry",
     qrCode |-> "data:image/png;base64,..."]

\* requestStore.set(requestId, {...}) in createIssuanceRequest
issuanceRecord(c, t) ==
    [type |-> "issuance", status |-> "request_created", data |-> platformData,
     userData |-> c.userData, pin |-> pinValue(c.pin), created |-> t,
     updated |-> None]

\* requestStore.set(requestId, {...}) in createVerificationRequest
verificationRecord(c, t) ==
    [type |-> "verification", status |-> "request_created", data |-> platformData,
     options |-> c.options, created |-> t, updated |-> None,
     verifiedCredential |-> None, faceCheckResult |-> None]

\* a variant that stores another initial status
createRecord_statusCreated(s, c, t) ==
    IF s = "issue" THEN [issuanceRecord(c, t) EXCEPT !.status = "created"]
    ELSE [verificationRecord(c, t) EXCEPT !.status = "created"]

\* the dispatch on the service
createRecord(s, c, t) ==
    IF s = "issue" THEN issuanceRecord(c, t) ELSE verificationRecord(c, t)

\* res.json({success: true, ...}) of the two create routes
createSuccess(s, c) ==
    IF s = "issue"
    THEN [ep |-> "create", http |-> 200,
          body |-> [success |-> TRUE, requestId |-> c.requestId,
                    url |-> platformData.url, expiry |-> platformData.expiry,
                    qrCode |-> platformData.qrCode, pin |-> pinValue(c.pin),
                    message |-> "Credential issuance request created successfully"]]
    ELSE [ep |-> "create", http |-> 200,
          body |-> [success |-> TRUE, requestId |-> c.requestId,
                    url |-> platformData.url, expiry |-> platformData.expiry,
                    qrCode |-> platformData.qrCode,
                    faceCheckEnabled |-> c.options.includeFaceCheck,
                    message |-> "Credential verification request created successfully"]]

\* res.status(500).json({success: false, error, message}) of the two create
\* routes; cause is the upstream error message
createFailure(s, cause) ==
    [ep |-> "create", http |-> 500,
     body |-> [success |-> FALSE,
               error |-> <<IF s = "issue" THEN "Failed to create issuance request: "
                           ELSE "Failed to create verification request: ", cause>>,
               message |-> IF s = "issue"
                           THEN "Failed to create credential issuance request"
                           ELSE "Failed to create credential verification request"]]

----------------------------------------------------------------------------
(* State machine *)

\* a step that sends no response
NoResponse == [req |-> Undefined, ep |-> "none", http |-> 0, body |-> [message |-> "none"]]

\* the response r, sent in answer to a request whose key input is req
Respond(req, r) == [req |-> req, ep |-> r.ep, http |-> r.http, body |-> r.body]

Environments == {[set |-> e, pin |-> Undefined] : e \in EnvSets}

Init ==
    /\ svc \in {"issue", "verify"}
    /\ env \in Environments
    /\ phase = IF missingVars(svc, env) = {} THEN "listening" ELSE "exited"
    /\ requestStore = [k \in {} |-> Undefined]
    /\ creates = {}
    /\ pendingCallbacks = {}
    /\ cbLog = <<>>
    /\ issued = {}
    /\ now = 1
    /\ lastResp = NoResponse

\* GET /health
Health ==
    /\ phase = "listening"
    /\ lastResp' = Respond(Undefined,
                            [ep |-> "health", http |-> 200,
                             body |-> [status |-> "healthy",
                                       app |-> IF svc = "issue" THEN "issue-credential"
                                               ELSE "verify-credential"]])
    /\ UNCHANGED <<svc, env, phase, requestStore, creates, pendingCallbacks, cbLog,
                   issued, now>>

\* a variant in which reading a record marks it as retrieved
RequestStatus_marksRetrieved(requestId) ==
    /\ phase = "listening"
    /\ lastResp' = Respond(requestId, requestStatus(svc, requestStore, requestId))
    /\ requestStore' =
          IF requestId \in DOMAIN requestStore
          THEN [requestStore EXCEPT ![requestId].status = "request_retrieved"]
          ELSE requestStore
    /\ UNCHANGED <<svc, env, phase, creates, pendingCallbacks, cbLog, issued, now>>

\* GET /api/request-status/:requestId
RequestStatus(requestId) ==
    /\ phase = "listening"
    /\ lastResp' = Respond(requestId, requestStatus(svc, requestStore, requestId))
    /\ UNCHANGED <<svc, env, phase, requestStore, creates, pendingCallbacks, cbLog,
                   issued, now>>

\* requireEasyAuth answering 401 on a protected route of issue-app
RequireEasyAuthRefuses(ep, h) ==
    /\ phase = "listening"
    /\ svc = "issue"
    /\ parseEasyAuthUser(h) = None
    /\ lastResp' = Respond(h, authRequired(ep))
    /\ UNCHANGED <<svc, env, phase, requestStore, creates, pendingCallbacks, cbLog,
                   issued, now>>

\* a variant that gives up when the profile lookup fails
GetUser_profileFatal(h, graph) ==
    /\ phase = "listening"
    /\ svc = "issue"
    /\ parseEasyAuthUser(h) # None
    /\ lastResp' =
          IF graph = None
          THEN Respond(h, [ep |-> "user", http |-> 500,
                           body |-> [error |-> "Failed to load user information",
                                     message |-> "Failed to fetch user profile"]])
          ELSE Respond(h, [ep |-> "user", http |-> 200,
                           body |-> [user |-> getUserProfile(graph[1]),
                                     authenticated |-> TRUE]])
    /\ UNCHANGED <<svc, env, phase, requestStore, creates, pendingCallbacks, cbLog,
                   issued, now>>

\* GET /api/user past requireEasyAuth: the Graph profile, or the Easy Auth one
GetUser(h, graph) ==
    /\ phase = "listening"
    /\ svc = "issue"
    /\ parseEasyAuthUser(h) # None
    /\ LET easyAuthUser == parseEasyAuthUser(h)[1]
           userProfile == IF graph = None THEN userFallbackProfile(easyAuthUser)
                          ELSE getUserProfile(graph[1])
       IN lastResp' = Respond(h, [ep |-> "user", http |-> 200,
                                  body |-> [user |-> userProfile,
                                            authenticated |-> TRUE]])
    /\ UNCHANGED <<svc, env, phase, requestStore, creates, pendingCallbacks, cbLog,
                   issued, now>>

\* POST /api/issue-credential past requireEasyAuth, up to the await of
\* getAccessToken in createIssuanceRequest.  The profile and photo lookups
\* touch no shared state and are folded into this step; their outcomes are
\* the inputs graph and avail.
IssueCredential(h, graph, avail) ==
    /\ phase = "listening"
    /\ svc = "issue"
    /\ parseEasyAuthUser(h) # None
    /\ creates' = creates \cup
         {[req |-> Cardinality(creates) + 1, pc |-> "token", input |-> h,
           userData |-> issueUserData(parseEasyAuthUser(h)[1], graph, avail),
           requestId |-> Undefined, pin |-> None, resp |-> None,
           calls |-> [token |-> 1, post |-> 0]]}
    /\ lastResp' = NoResponse
    /\ UNCHANGED <<svc, env, phase, requestStore, pendingCallbacks, cbLog, issued, now>>

\* POST /api/verify-credential up to the await of getAccessToken
VerifyCredential(includeFaceCheck) ==
    /\ phase = "listening"
    /\ svc = "verify"
    /\ creates' = creates \cup
         {[req |-> Cardinality(creates) + 1, pc |-> "token",
           input |-> includeFaceCheck,
           options |-> [includeFaceCheck |-> includeFaceCheck],
           requestId |-> Undefined, resp |-> None,
           calls |-> [token |-> 1, post |-> 0]]}
    /\ lastResp' = NoResponse
    /\ UNCHANGED <<svc, env, phase, requestStore, pendingCallbacks, cbLog, issued, now>>

\* the PIN codes Math.random() can yield in this process (0: no PIN is drawn)
drawnPinCodes ==
    IF svc = "issue" /\ pinCodeLength > 0 THEN pinCodes(pinCodeLength) ELSE {0}

\* a variant that stores the record before the platform call is awaited
TokenAcquired_storesEarly(c, requestId, pinCode) ==
    /\ phase = "listening"
    /\ c \in creates /\ c.pc = "token"
    /\ requestId = UuidNames[Cardinality(issued) + 1]
    /\ pinCode \in drawnPinCodes
    /\ LET d == IF svc = "issue"
                THEN [c EXCEPT !.pc = "post", !.requestId = requestId, !.calls.post = @ + 1,
                               !.pin = issuancePin(pinCodeLength, pinCode)]
                ELSE [c EXCEPT !.pc = "post", !.requestId = requestId, !.calls.post = @ + 1]
       IN /\ creates' = (creates \ {c}) \cup {d}
          /\ requestStore' =
                (requestId :> IF svc = "issue" THEN issuanceRecord(d, now)
                              ELSE verificationRecord(d, now)) @@ requestStore
    /\ now' = now + 1
    /\ issued' = issued \cup {requestId}
    /\ lastResp' = NoResponse
    /\ UNCHANGED <<svc, env, phase, pendingCallbacks, cbLog>>

\* a variant whose id generator returns the same id every time
TokenAcquired_fixedId(c, requestId, pinCode) ==
    /\ phase = "listening"
    /\ c \in creates /\ c.pc = "token"
    /\ requestId = UuidNames[1]
    /\ pinCode \in drawnPinCodes
    /\ creates' = (creates \ {c}) \cup
         {IF svc = "issue"
          THEN [c EXCEPT !.pc = "post", !.requestId = requestId, !.calls.post = @ + 1,
                         !.pin = issuancePin(pinCodeLength, pinCode)]
          ELSE [c EXCEPT !.pc = "post", !.requestId = requestId, !.calls.post = @ + 1]}
    /\ issued' = issued \cup {requestId}
    /\ lastResp' = NoResponse
    /\ UNCHANGED <<svc, env, phase, requestStore, pendingCallbacks, cbLog, now>>

\* getAccessToken resolved: requestId = uuidv4(), the request document (with
\* its PIN) is built and axios.post is awaited
TokenAcquired(c, requestId, pinCode) ==
    /\ phase = "listening"
    /\ c \in creates /\ c.pc = "token"
    /\ requestId = UuidNames[Cardinality(issued) + 1]
    /\ pinCode \in drawnPinCodes
    /\ creates' = (creates \ {c}) \cup
         {IF svc = "issue"
          THEN [c EXCEPT !.pc = "post", !.requestId = requestId, !.calls.post = @ + 1,
                         !.pin = issuancePin(pinCodeLength, pinCode)]
          ELSE [c EXCEPT !.pc = "post", !.requestId = requestId, !.calls.post = @ + 1]}
    /\ issued' = issued \cup {requestId}
    /\ lastResp' = NoResponse
    /\ UNCHANGED <<svc, env, phase, requestStore, pendingCallbacks, cbLog, now>>

\* a variant that acquires the token once more before giving up
TokenFailed_retries(c) ==
    /\ phase = "listening"
    /\ c \in creates /\ c.pc = "token"
    /\ IF c.calls.token < 2
       THEN /\ creates' = (creates \ {c}) \cup {[c EXCEPT !.calls.token = @ + 1]}
            /\ lastResp' = NoResponse
       ELSE /\ lastResp' = Respond(c.input,
                                   createFailure(svc, "Failed to acquire access token"))
            /\ creates' = (creates \ {c}) \cup
                 {[req |-> c.req, pc |-> "done", requestId |-> Undefined,
                   resp |-> Some([http |-> 500, success |-> FALSE]),
                   calls |-> c.calls]}
    /\ UNCHANGED <<svc, env, phase, requestStore, pendingCallbacks, cbLog, issued, now>>

\* getAccessToken rejected: the route answers 500
TokenFailed(c) ==
    /\ phase = "listening"
    /\ c \in creates /\ c.pc = "token"
    /\ lastResp' = Respond(c.input, createFailure(svc, "Failed to acquire access token"))
    /\ creates' = (creates \ {c}) \cup
         {[req |-> c.req, pc |-> "done", requestId |-> Undefined,
           resp |-> Some([http |-> 500, success |-> FALSE]), calls |-> c.calls]}
    /\ UNCHANGED <<svc, env, phase, requestStore, pendingCallbacks, cbLog, issued, now>>

\* axios.post resolved: requestStore.set, then the route's res.json
PostResolved(c) ==
    /\ phase = "listening"
    /\ c \in creates /\ c.pc = "post"
    /\ requestStore' = (c.requestId :> createRecord(svc, c, now)) @@ requestStore
    /\ now' = now + 1
    /\ lastResp' = Respond(c.input, createSuccess(svc, c))
    /\ creates' = (creates \ {c}) \cup
         {[req |-> c.req, pc |-> "done", requestId |-> c.requestId,
           resp |-> Some([http |-> 200, success |-> TRUE]), calls |-> c.calls]}
    /\ UNCHANGED <<svc, env, phase, pendingCallbacks, cbLog, issued>>

\* a variant that keeps a record for a create whose platform call failed
PostRejected_storesRecord(c) ==
    /\ phase = "listening"
    /\ c \in creates /\ c.pc = "post"
    /\ requestStore' = (c.requestId :> createRecord(svc, c, now)) @@ requestStore
    /\ now' = now + 1
    /\ lastResp' = Respond(c.input, createFailure(svc, "Request failed"))
    /\ creates' = (creates \ {c}) \cup
         {[req |-> c.req, pc |-> "done", requestId |-> c.requestId,
           resp |-> Some([http |-> 500, success |-> FALSE]), calls |-> c.calls]}
    /\ UNCHANGED <<svc, env, phase, pendingCallbacks, cbLog, issued>>

\* a variant that records the failure of the platform call under the id
PostRejected_marksFailed(c) ==
    /\ phase = "listening"
    /\ c \in creates /\ c.pc = "post"
    /\ requestStore' = (c.requestId :>
                          [createRecord(svc, c, now) EXCEPT !.status = "request_failed"])
                       @@ requestStore
    /\ lastResp' = Respond(c.input, createFailure(svc, "Request failed"))
    /\ creates' = (creates \ {c}) \cup
         {[req |-> c.req, pc |-> "done", requestId |-> c.requestId,
           resp |-> Some([http |-> 500, success |-> FALSE]), calls |-> c.calls]}
    /\ UNCHANGED <<svc, env, phase, pendingCallbacks, cbLog, issued, now>>

\* axios.post rejected: the route answers 500
PostRejected(c) ==
    /\ phase = "listening"
    /\ c \in creates /\ c.pc = "post"
    /\ lastResp' = Respond(c.input, createFailure(svc, "Request failed"))
    /\ creates' = (creates \ {c}) \cup
         {[req |-> c.req, pc |-> "done", requestId |-> c.requestId,
           resp |-> Some([http |-> 500, success |-> FALSE]), calls |-> c.calls]}
    /\ UNCHANGED <<svc, env, phase, requestStore, pendingCallbacks, cbLog, issued, now>>

\* a POST to the callback endpoint arrives; the body parsers read it
CallbackArrives(body) ==
    /\ phase = "listening"
    /\ pendingCallbacks' = pendingCallbacks \cup
         {[seq |-> Len(cbLog) + Cardinality(pendingCallbacks) + 1, body |-> body]}
    /\ lastResp' = NoResponse
    /\ UNCHANGED <<svc, env, phase, requestStore, creates, cbLog, issued, now>>

\* a variant that drops a record once a callback reports an error status
Callback_evictsOnError(e) ==
    /\ phase = "listening"
    /\ e \in pendingCallbacks
    /\ LET requestId == e.body.state
           found == requestId \in DOMAIN requestStore
           out == IF found THEN callbackUpdate(svc, requestStore[requestId], e.body, now)
                  ELSE [threw |-> FALSE]
           resp == callbackResponse(svc, out.threw)
       IN /\ requestStore' =
                IF ~found THEN requestStore
                ELSE IF e.body.code \in {"issuance_error", "presentation_error"}
                THEN [k \in DOMAIN requestStore \ {requestId} |-> requestStore[k]]
                ELSE [requestStore EXCEPT ![requestId] = out.request]
          /\ now' = IF found THEN now + 1 ELSE now
          /\ lastResp' = Respond(requestId, resp)
          /\ cbLog' = Append(cbLog,
               [seq |-> e.seq, body |-> e.body, found |-> found, http |-> resp.http,
                at |-> now,
                overlapped |-> \E o \in pendingCallbacks \ {e} :
                                  o.body.state = requestId])
    /\ pendingCallbacks' = pendingCallbacks \ {e}
    /\ UNCHANGED <<svc, env, phase, creates, issued>>

\* a variant that writes the status of a found key to every record
Callback_broadcast(e) ==
    /\ phase = "listening"
    /\ e \in pendingCallbacks
    /\ LET requestId == e.body.state
           found == requestId \in DOMAIN requestStore
           out == IF found THEN callbackUpdate(svc, requestStore[requestId], e.body, now)
                  ELSE [threw |-> FALSE]
           resp == callbackResponse(svc, out.threw)
       IN /\ requestStore' =
                IF found
                THEN [k \in DOMAIN requestStore |->
                        IF k = requestId THEN out.request
                        ELSE [requestStore[k] EXCEPT !.status = e.body.code,
                                                     !.updated = Some(now)]]
                ELSE requestStore
          /\ now' = IF found THEN now + 1 ELSE now
          /\ lastResp' = Respond(requestId, resp)
          /\ cbLog' = Append(cbLog,
               [seq |-> e.seq, body |-> e.body, found |-> found, http |-> resp.http,
                at |-> now,
                overlapped |-> \E o \in pendingCallbacks \ {e} :
                                  o.body.state = requestId])
    /\ pendingCallbacks' = pendingCallbacks \ {e}
    /\ UNCHANGED <<svc, env, phase, creates, issued>>

\* a variant that creates an entry for a key the store does not hold
Callback_upsert(e) ==
    /\ phase = "listening"
    /\ e \in pendingCallbacks
    /\ LET requestId == e.body.state
           found == requestId \in DOMAIN requestStore
           out == IF found THEN callbackUpdate(svc, requestStore[requestId], e.body, now)
                  ELSE [threw |-> FALSE]
           resp == callbackResponse(svc, out.threw)
       IN /\ requestStore' =
                IF found THEN [requestStore EXCEPT ![requestId] = out.request]
                ELSE (requestId :> [status |-> e.body.code, updated |-> Some(now)])
                     @@ requestStore
          /\ now' = now + 1
          /\ lastResp' = Respond(requestId, resp)
          /\ cbLog' = Append(cbLog,
               [seq |-> e.seq, body |-> e.body, found |-> found, http |-> resp.http,
                at |-> now,
                overlapped |-> \E o \in pendingCallbacks \ {e} :
                                  o.body.state = requestId])
    /\ pendingCallbacks' = pendingCallbacks \ {e}
    /\ UNCHANGED <<svc, env, phase, creates, issued>>

\* a variant in which a handler that runs while another callback for the same
\* id is in flight writes the status alone
Callback_lostFields(e) ==
    /\ phase = "listening"
    /\ e \in pendingCallbacks
    /\ LET requestId == e.body.state
           found == requestId \in DOMAIN requestStore
           overlapped == \E o \in pendingCallbacks \ {e} : o.body.state = requestId
           out == IF found THEN callbackUpdate(svc, requestStore[requestId], e.body, now)
                  ELSE [threw |-> FALSE]
           resp == callbackResponse(svc, out.threw)
       IN /\ requestStore' =
                IF ~found THEN requestStore
                ELSE IF overlapped
                THEN [requestStore EXCEPT ![requestId].status = e.body.code,
                                          ![requestId].updated = Some(now)]
                ELSE [requestStore EXCEPT ![requestId] = out.request]
          /\ now' = IF found THEN now + 1 ELSE now
          /\ lastResp' = Respond(requestId, resp)
          /\ cbLog' = Append(cbLog,
               [seq |-> e.seq, body |-> e.body, found |-> found, http |-> resp.http,
                at |-> now, overlapped |-> overlapped])
    /\ pendingCallbacks' = pendingCallbacks \ {e}
    /\ UNCHANGED <<svc, env, phase, creates, issued>>

\* POST /api/request-callback (issue-app) and POST /api/verification-callback
\* (verify-app): the whole handler, which has no await
Callback(e) ==
    /\ phase = "listening"
    /\ e \in pendingCallbacks
    /\ LET requestId == e.body.state
           found == requestId \in DOMAIN requestStore
           out == IF found THEN callbackUpdate(svc, requestStore[requestId], e.body, now)
                  ELSE [threw |-> FALSE]
           resp == callbackResponse(svc, out.threw)
       IN /\ requestStore' = IF found
                             THEN [requestStore EXCEPT ![requestId] = out.request]
                             ELSE requestStore
          /\ now' = IF found THEN now + 1 ELSE now
          /\ lastResp' = Respond(requestId, resp)
          /\ cbLog' = Append(cbLog,
               [seq |-> e.seq, body |-> e.body, found |-> found, http |-> resp.http,
                at |-> now,
                overlapped |-> \E o \in pendingCallbacks \ {e} :
                                  o.body.state = requestId])
    /\ pendingCallbacks' = pendingCallbacks \ {e}
    /\ UNCHANGED <<svc, env, phase, creates, issued>>

Next ==
    \/ Health
    \/ \E requestId \in RequestParams : RequestStatus(requestId)
    \/ \E ep \in {"user", "create"}, h \in RefusedHeaders : RequireEasyAuthRefuses(ep, h)
    \/ \E in \in ProtectedInputs : GetUser(in[1], in[2])
    \/ /\ Cardinality(creates) < MaxCreates
       /\ \/ \E in \in ProtectedInputs : IssueCredential(in[1], in[2], in[3])
          \/ \E includeFaceCheck \in BOOLEAN : VerifyCredential(includeFaceCheck)
    \/ \E c \in creates, requestId \in Uuids, pinCode \in drawnPinCodes :
          TokenAcquired(c, requestId, pinCode)
    \/ \E c \in creates : TokenFailed(c)
    \/ \E c \in creates : PostResolved(c)
    \/ \E c \in creates : PostRejected(c)
    \/ /\ Len(cbLog) + Cardinality(pendingCallbacks) < MaxCallbacks
       /\ \E body \in CallbackBodies(svc) : CallbackArrives(body)
    \/ \E e \in pendingCallbacks : Callback(e)

Spec == Init /\ [][Next]_vars

----------------------------------------------------------------------------
(* Several create requests in flight at once.  The same actions, with more  *)
(* creates, fewer callbacks and fewer inputs per action.                    *)

\* create requests per run
MaxConcurrentCreates == 2
\* callback POSTs per run
MaxConcurrentCallbacks == 1

\* the ids uuidv4() returns in such a run
ConcurrentUuids == {UuidNames[i] : i \in 1..MaxConcurrentCreates}

\* one success callback per id
ConcurrentBodies ==
    {Body(u, IF svc = "issue" THEN "issuance_successful" ELSE "presentation_verified",
          IF svc = "issue" THEN NoVcd ELSE Vcd(<<CredentialJane>>)) :
       u \in ConcurrentUuids}

\* the inputs of the protected routes in such a run
ConcurrentInputs ==
    {<<HeaderJane, Some(GraphUserJane), {"96x96", "48x48", "default"}>>,
     <<HeaderBob, None, {}>>}

NextConcurrent ==
    \/ Health
    \/ \E requestId \in ConcurrentUuids : RequestStatus(requestId)
    \/ \E h \in RefusedHeaders : RequireEasyAuthRefuses("user", h)
    \/ \E in \in ConcurrentInputs : GetUser(in[1], in[2])
    \/ /\ Cardinality(creates) < MaxConcurrentCreates
       /\ \/ \E in \in ConcurrentInputs : IssueCredential(in[1], in[2], in[3])
          \/ \E includeFaceCheck \in BOOLEAN : VerifyCredential(includeFaceCheck)
    \/ \E c \in creates, requestId \in ConcurrentUuids, pinCode \in drawnPinCodes :
          TokenAcquired(c, requestId, pinCode)
    \/ \E c \in creates : TokenFailed(c)
    \/ \E c \in creates : PostResolved(c)
    \/ \E c \in creates : PostRejected(c)
    \/ /\ Len(cbLog) + Cardinality(pendingCallbacks) < MaxConcurrentCallbacks
       /\ \E body \in ConcurrentBodies : CallbackArrives(body)
    \/ \E e \in pendingCallbacks : Callback(e)

SpecConcurrent == Init /\ [][NextConcurrent]_vars

----------------------------------------------------------------------------
(* The protected routes of issue-app under every header of the model and    *)
(* every combination of photo resources Graph can serve.  One create, no    *)
(* callbacks.                                                               *)

MaxProtectedCreates == 1

\* the photo resources getUserPhoto asks Graph for
PhotoResources == {photoSizes[i] : i \in 1..Len(photoSizes)} \cup {"default"}

\* every header, with the directory lookups failing
HeaderInputs == {<<h, None, {}>> : h \in Headers}

\* one signed-in user, with every outcome of the photo lookups
PhotoInputs ==
    {<<HeaderJane, graph, avail>> :
        graph \in {None, Some(GraphUserJane)}, avail \in SUBSET PhotoResources}

NextProtected ==
    \/ Health
    \/ \E requestId \in {UuidNames[1]} : RequestStatus(requestId)
    \/ \E ep \in {"user", "create"}, h \in Headers : RequireEasyAuthRefuses(ep, h)
    \/ \E in \in HeaderInputs : GetUser(in[1], in[2])
    \/ /\ Cardinality(creates) < MaxProtectedCreates
       /\ \E in \in HeaderInputs \cup PhotoInputs : IssueCredential(in[1], in[2], in[3])
    \/ \E c \in creates, requestId \in {UuidNames[1]}, pinCode \in drawnPinCodes :
          TokenAcquired(c, requestId, pinCode)
    \/ \E c \in creates : TokenFailed(c)
    \/ \E c \in creates : PostResolved(c)
    \/ \E c \in creates : PostRejected(c)

SpecProtected == Init /\ [][NextProtected]_vars

----------------------------------------------------------------------------
(* Startup under every configuration of the model: each setting missing in  *)
(* turn, and each text of ISSUANCE_PIN_CODE_LENGTH.  One create and one     *)
(* callback.                                                                *)

MaxConfigCreates == 1
MaxConfigCallbacks == 1

\* the settings a service reads from process.env with no || default
settingsRead(s) ==
    IF s = "issue"
    THEN {"AZURE_TENANT_ID", "AZURE_CLIENT_ID", "AZURE_CLIENT_SECRET", "APP_URL",
          "DID_AUTHORITY", "CREDENTIAL_TYPE", "CREDENTIAL_MANIFEST"}
    ELSE {"AZURE_TENANT_ID", "AZURE_CLIENT_ID", "AZURE_CLIENT_SECRET", "APP_URL",
          "DID_AUTHORITY", "CREDENTIAL_TYPE"}

\* callback.url of the request sent to the platform:
\* `${process.env.APP_URL}/api/request-callback` (the template prints an unset
\* variable as "undefined")
callbackUrl(s, e) ==
    <<IF "APP_URL" \in e.set THEN "APP_URL" ELSE Undefined,
      IF s = "issue" THEN "/api/request-callback" ELSE "/api/verification-callback">>

\* the texts ISSUANCE_PIN_CODE_LENGTH has in the model (Undefined: not set)
PinTexts == {Undefined, "", "0", "2", "6", "7", "-1", "abc", "3abc"}

ConfigEnvironments ==
    {[set |-> AllEnvVars \ missing, pin |-> Undefined] :
        missing \in {{}} \cup {{v} : v \in AllEnvVars}}
    \cup {[set |-> AllEnvVars, pin |-> text] : text \in PinTexts}

InitConfig ==
    /\ svc \in {"issue", "verify"}
    /\ env \in ConfigEnvironments
    /\ phase = IF missingVars(svc, env) = {} THEN "listening" ELSE "exited"
    /\ requestStore = [k \in {} |-> Undefined]
    /\ creates = {}
    /\ pendingCallbacks = {}
    /\ cbLog = <<>>
    /\ issued = {}
    /\ now = 1
    /\ lastResp = NoResponse

NextConfig ==
    \/ Health
    \/ \E requestId \in {UuidNames[1]} : RequestStatus(requestId)
    \/ /\ Cardinality(creates) < MaxConfigCreates
       /\ \/ IssueCredential(HeaderJane, Some(GraphUserJane), {})
          \/ VerifyCredential(FALSE)
    \/ \E c \in creates, requestId \in {UuidNames[1]}, pinCode \in drawnPinCodes :
          TokenAcquired(c, requestId, pinCode)
    \/ \E c \in creates : TokenFailed(c)
    \/ \E c \in creates : PostResolved(c)
    \/ \E c \in creates : PostRejected(c)
    \/ /\ Len(cbLog) + Cardinality(pendingCallbacks) < MaxConfigCallbacks
       /\ \E body \in {Body(UuidNames[1],
                            IF svc = "issue" THEN "issuance_successful"
                            ELSE "presentation_verified", NoVcd)} :
             CallbackArrives(body)
    \/ \E e \in pendingCallbacks : Callback(e)

SpecConfig == InitConfig /\ [][NextConfig]_vars

----------------------------------------------------------------------------
(* Progress.  Node's event loop runs every handler whose request has been   *)
(* read, and the token endpoint is taken to answer, so these steps are      *)
(* fair.  axios.post is called with no timeout option and nothing else      *)
(* bounds the wait, so a create resumes from it only if the platform        *)
(* answers: PostResolved and PostRejected get no fairness.                  *)

\* a callback whose body has been read is handled
CallbackHandled == \E e \in pendingCallbacks : Callback(e)

\* getAccessToken settles
TokenSettles ==
    \/ \E c \in creates, requestId \in ConcurrentUuids, pinCode \in drawnPinCodes :
          TokenAcquired(c, requestId, pinCode)
    \/ \E c \in creates : TokenFailed(c)

\* the platform answers the outbound call
PlatformAnswers ==
    \/ \E c \in creates : PostResolved(c)
    \/ \E c \in creates : PostRejected(c)

SpecLive ==
    /\ Init /\ [][NextConcurrent]_vars
    /\ WF_vars(CallbackHandled)
    /\ WF_vars(TokenSettles)

\* the same, under a platform that answers every call
SpecLivePlatformAnswers == SpecLive /\ WF_vars(PlatformAnswers)

----------------------------------------------------------------------------
(* Properties *)

\* the callback handler runs that found the record of key r, in the order they ran
AppliedTo(r) == SelectSeq(cbLog, LAMBDA x : x.found /\ x.body.state = r)

\* the create requests answered with success: true
SucceededCreates ==
    {c \in creates : c.pc = "done" /\ c.resp = Some([http |-> 200, success |-> TRUE])}

\* the type a record of this service carries
KindOf(s) == IF s = "issue" THEN "issuance" ELSE "verification"

\* C1: after a create answered success: true with requestId r, a status query
\* for r answered while no callback has yet been applied to r's record returns
\* status "request_created" and the type of the creating service.
C1_StatusAfterCreate ==
    \A c \in SucceededCreates :
        (lastResp.ep = "status" /\ lastResp.req = c.requestId
         /\ AppliedTo(c.requestId) = <<>>)
        => /\ lastResp.http = 200
           /\ lastResp.body.status = "request_created"
           /\ lastResp.body.type = KindOf(svc)

\* C1 witness: the verify service answers such a query, after a callback for r
\* that arrived before the record was stored had been dropped.
C1_Witness ==
    /\ svc = "verify"
    /\ \E c \in SucceededCreates :
          /\ lastResp.ep = "status" /\ lastResp.req = c.requestId
          /\ lastResp.body.status = "request_created"
          /\ \E i \in 1..Len(cbLog) :
                cbLog[i].body.state = c.requestId /\ ~cbLog[i].found

\* C2: last-write-wins.  When two callbacks with codes A and B have been
\* applied to a stored id, B last, the record's status is B and a status query
\* for the id returns B, whatever A was.
C2_LastWriteWins ==
    \A r \in DOMAIN requestStore :
        LET applied == AppliedTo(r)
        IN  Len(applied) >= 2 =>
              /\ requestStore[r].status = applied[Len(applied)].body.code
              /\ (lastResp.ep = "status" /\ lastResp.req = r) =>
                    lastResp.body.status = applied[Len(applied)].body.code

\* C2 witness: a terminal success status has been overwritten by another code,
\* and the status query reports the later one.
C2_Witness ==
    \E r \in DOMAIN requestStore :
        LET applied == AppliedTo(r)
        IN  /\ Len(applied) = 2
            /\ applied[1].body.code \in {"issuance_successful", "presentation_verified"}
            /\ applied[2].body.code \in {"issuance_error", "presentation_error"}
            /\ lastResp.ep = "status" /\ lastResp.req = r
            /\ lastResp.body.status = applied[2].body.code

\* C3: a callback whose state is no key of the store leaves the store exactly
\* as it was and is answered 200.
C3_UnknownStateIgnored ==
    [][\A e \in pendingCallbacks :
          (Callback(e) /\ e.body.state \notin DOMAIN requestStore)
          => (requestStore' = requestStore /\ lastResp'.http = 200)]_vars

\* C3 witness: with a record in the store, a callback for a key that is not in
\* it has just been handled.
C3_Witness ==
    /\ DOMAIN requestStore # {}
    /\ lastResp.ep = "callback"
    /\ lastResp.req \in {NonexistentId, Undefined}
    /\ Len(cbLog) > 0 /\ ~cbLog[Len(cbLog)].found

\* C4 (as claimed): every POST to the callback endpoint is answered 200 with a
\* "...received" message, for every payload.
C4_CallbackAlways200 ==
    lastResp.ep = "callback" =>
        /\ lastResp.http = 200
        /\ lastResp.body.message \in {"Callback received", "Verification callback received"}

\* C5: the status query returns the stored record under exactly the key asked
\* for, and answers 404 {success: false, error: "Request not found"} for every
\* key that is not in the store.
C5_StatusLookup ==
    lastResp.ep = "status" =>
        IF lastResp.req \in DOMAIN requestStore
        THEN /\ lastResp.http = 200
             /\ lastResp.body.success
             /\ lastResp.body.requestId = lastResp.req
             /\ lastResp.body.status = requestStore[lastResp.req].status
             /\ lastResp.body.type = requestStore[lastResp.req].type
             /\ lastResp.body.created = requestStore[lastResp.req].created
             /\ svc = "issue" => lastResp.body.pin = requestStore[lastResp.req].pin
             /\ svc = "verify" =>
                   /\ lastResp.body.verifiedCredential =
                         requestStore[lastResp.req].verifiedCredential
                   /\ lastResp.body.faceCheckResult =
                         requestStore[lastResp.req].faceCheckResult
        ELSE /\ lastResp.http = 404
             /\ lastResp.body = [success |-> FALSE, error |-> "Request not found"]

\* C5 witness: with a record in the store, a query for another key is
\* answered 404.
C5_Witness ==
    /\ DOMAIN requestStore # {}
    /\ lastResp.ep = "status"
    /\ lastResp.req \notin DOMAIN requestStore
    /\ lastResp.http = 404

\* the verifiedCredential a callback builds from a credential of its payload
ResultOf(credentialData) ==
    [type |-> credentialData.type, issuer |-> credentialData.issuer,
     claims |-> credentialData.claims,
     credentialSubject |-> credentialData.credentialSubject]

\* the last callback applied to r carried presentation_verified and a
\* non-empty verifiedCredentialsData
LastVerifiedWithData(r) ==
    LET applied == AppliedTo(r)
    IN  /\ Len(applied) > 0
        /\ applied[Len(applied)].body.code = "presentation_verified"
        /\ applied[Len(applied)].body.hasVcd
        /\ Len(applied[Len(applied)].body.verifiedCredentialsData) > 0

\* C6 (as claimed): in the verify service, after a callback for an existing id
\* r with code presentation_verified and a non-empty verifiedCredentialsData,
\* the status query for r returns presentation_verified and a result holding
\* the type, issuer, claims and credentialSubject of the payload.
C6_VerifiedResultServed ==
    svc = "verify" =>
      \A r \in DOMAIN requestStore :
        (LastVerifiedWithData(r) /\ lastResp.ep = "status" /\ lastResp.req = r)
        => LET last == AppliedTo(r)[Len(AppliedTo(r))]
           IN  /\ lastResp.body.status = "presentation_verified"
               /\ lastResp.body.verifiedCredential =
                     Some(ResultOf(last.body.verifiedCredentialsData[1]))

\* C6, restricted to payloads whose first credential is an object: this part
\* of the claim holds.
C6_HoldsForObjectCredential ==
    svc = "verify" =>
      \A r \in DOMAIN requestStore :
        (LastVerifiedWithData(r) /\ lastResp.ep = "status" /\ lastResp.req = r
         /\ AppliedTo(r)[Len(AppliedTo(r))].body.verifiedCredentialsData[1].js = "object")
        => LET last == AppliedTo(r)[Len(AppliedTo(r))]
           IN  /\ lastResp.body.status = "presentation_verified"
               /\ lastResp.body.verifiedCredential =
                     Some(ResultOf(last.body.verifiedCredentialsData[1]))

\* C7 (as claimed): handling again the callback that was applied last to an id
\* (same id, code and payload) leaves what the status query reports unchanged,
\* and neither delivery produced an error.
C7_DuplicateIdempotent ==
    [][\A e \in pendingCallbacks :
          LET r == e.body.state
              applied == AppliedTo(r)
          IN  (/\ Callback(e)
               /\ r \in DOMAIN requestStore
               /\ Len(applied) > 0
               /\ applied[Len(applied)].body = e.body)
              => /\ requestStatus(svc, requestStore', r) = requestStatus(svc, requestStore, r)
                 /\ applied[Len(applied)].http = 200
                 /\ lastResp'.http = 200]_vars

\* C7, the part about the record alone: a duplicate delivery leaves what the
\* status query reports unchanged.  This part of the claim holds.
C7_DuplicateKeepsRecord ==
    [][\A e \in pendingCallbacks :
          LET r == e.body.state
              applied == AppliedTo(r)
          IN  (/\ Callback(e)
               /\ r \in DOMAIN requestStore
               /\ Len(applied) > 0
               /\ applied[Len(applied)].body = e.body)
              => requestStatus(svc, requestStore', r) = requestStatus(svc, requestStore, r)]_vars

\* the well-formed identity headers of the model
ValidHeaders == {HeaderJane, HeaderBob}

\* C8 (as claimed): on the protected endpoints of the issue service a request
\* without the identity header is answered 401 with the fixed body, and a
\* request with a valid identity header is answered 200.
C8_ValidHeaderAlways200 ==
    (svc = "issue" /\ lastResp.ep \in {"user", "create"}) =>
        IF lastResp.req.kind = "absent"
        THEN /\ lastResp.http = 401
             /\ lastResp.body = authRequired(lastResp.ep).body
        ELSE lastResp.req \in ValidHeaders => lastResp.http = 200

\* C8 (amended): without the identity header the answer is 401 with the fixed
\* body; with a valid identity header it is never 401: /api/user answers 200,
\* and /api/issue-credential answers 200 with success: true once the record is
\* stored, or 500 with success: false and the upstream message when token
\* acquisition or the platform call failed.
C8_ProtectedEndpoints ==
    (svc = "issue" /\ lastResp.ep \in {"user", "create"}) =>
        IF lastResp.req.kind = "absent"
        THEN /\ lastResp.http = 401
             /\ lastResp.body = authRequired(lastResp.ep).body
        ELSE lastResp.req \in ValidHeaders =>
               /\ lastResp.ep = "user" => lastResp.http = 200
               /\ lastResp.ep = "create" =>
                     \/ /\ lastResp.http = 200
                        /\ lastResp.body.success
                        /\ lastResp.body.requestId \in DOMAIN requestStore
                     \/ /\ lastResp.http = 500
                        /\ ~lastResp.body.success
                        /\ lastResp.body.error[2] \in
                              {"Failed to acquire access token", "Request failed"}

\* C8 witness: /api/issue-credential has answered 200 to a request carrying a
\* valid identity header.
C8_Witness ==
    /\ svc = "issue"
    /\ lastResp.ep = "create"
    /\ lastResp.req \in ValidHeaders
    /\ lastResp.http = 200

\* C9: per-key atomicity of create.  A key is absent from the store as long as
\* its create has not resumed from the platform call; once present, its record
\* has type and created set, and its status is "request_created" or, after a
\* callback was applied, that callback's code; what a status query reports has
\* type and created set as well.
C9_CreateAtomic ==
    /\ \A c \in creates : c.pc = "post" => c.requestId \notin DOMAIN requestStore
    /\ \A K \in DOMAIN requestStore :
          /\ \E c \in SucceededCreates : c.requestId = K
          /\ requestStore[K].type = KindOf(svc)
          /\ requestStore[K].created \in 1..(now - 1)
          /\ requestStore[K].status =
                IF AppliedTo(K) = <<>> THEN "request_created"
                ELSE AppliedTo(K)[Len(AppliedTo(K))].body.code
    /\ (lastResp.ep = "status" /\ lastResp.http = 200) =>
          /\ lastResp.body.type = KindOf(svc)
          /\ lastResp.body.created \in 1..(now - 1)

\* C9 witness: while a create waits for the platform, a callback for its id
\* has been handled without finding a record, and a status query for the id
\* is answered 404.
C9_Witness ==
    \E c \in creates :
        /\ c.pc = "post"
        /\ lastResp.ep = "status" /\ lastResp.req = c.requestId
        /\ lastResp.http = 404
        /\ \E i \in 1..Len(cbLog) : cbLog[i].body.state = c.requestId /\ ~cbLog[i].found

\* the record of r as its create stored it
AsCreated(r) ==
    IF svc = "issue"
    THEN [requestStore[r] EXCEPT !.status = "request_created", !.updated = None]
    ELSE [requestStore[r] EXCEPT !.status = "request_created", !.updated = None,
                                 !.verifiedCredential = None,
                                 !.faceCheckResult = None]

\* the record after handling body b1 at time t1 and then body b2 at time t2
OneAfterTheOther(request, b1, t1, b2, t2) ==
    callbackUpdate(svc, callbackUpdate(svc, request, b1, t1).request, b2, t2).request

\* C10: when two callbacks for the same stored id were in flight at the same
\* time, the record after both handlers ran equals the record obtained by
\* handling the two one after the other, in one of the two orders.
C10_CallbacksSerialize ==
    \A r \in DOMAIN requestStore :
        LET applied == AppliedTo(r)
        IN  (Len(applied) = 2 /\ applied[1].overlapped) =>
              requestStore[r] \in
                {OneAfterTheOther(AsCreated(r), applied[1].body, applied[1].at,
                                  applied[2].body, applied[2].at),
                 OneAfterTheOther(AsCreated(r), applied[2].body, applied[1].at,
                                  applied[1].body, applied[2].at)}

\* C10 witness: two callbacks for the same id overlapped, the one that arrived
\* later was handled first, and both carried a result.
C10_Witness ==
    \E r \in DOMAIN requestStore :
        LET applied == AppliedTo(r)
        IN  /\ Len(applied) = 2
            /\ applied[1].overlapped
            /\ applied[1].seq > applied[2].seq
            /\ applied[1].body # applied[2].body
            /\ applied[1].body.hasVcd /\ applied[2].body.hasVcd
            /\ applied[1].body.code = "presentation_verified"
            /\ applied[2].body.code = "presentation_verified"

\* C11: create requests in flight at the same time obtain pairwise distinct
\* ids, and no create overwrites the record of another: every create answered
\* with success has its own record, the store holding as many records as
\* creates have succeeded.
C11_DistinctIds ==
    /\ \A c, d \in creates :
          (c.req # d.req /\ c.requestId # Undefined /\ d.requestId # Undefined)
          => c.requestId # d.requestId
    /\ \A c \in SucceededCreates : c.requestId \in DOMAIN requestStore
    /\ Cardinality(DOMAIN requestStore) = Cardinality(SucceededCreates)

\* C11 witness: two creates were suspended on their platform calls at the same
\* time: the one received later has stored its record while the one received
\* first still waits, holding another id.
C11_Witness ==
    \E c, d \in creates :
        /\ c.req < d.req
        /\ c.pc = "post"
        /\ d \in SucceededCreates
        /\ d.requestId \in DOMAIN requestStore
        /\ c.requestId # d.requestId

C13_StatusAlwaysPresent ==
    \A K \in DOMAIN requestStore : requestStore[K].status # Undefined

\* C13, restricted to records whose callbacks all carried a code: this part of
\* the claim holds.
C13_PresentWhenCodesPresent ==
    \A K \in DOMAIN requestStore :
        (\A i \in 1..Len(AppliedTo(K)) : AppliedTo(K)[i].body.code # Undefined)
        => requestStore[K].status # Undefined

\* C14: the status of a stored record changes only in a step that handles a
\* callback for that record's id; no create step, status query, health or
\* user request changes it.
C14_StatusChangesOnlyInCallback ==
    [][\A K \in DOMAIN requestStore :
          (K \in DOMAIN requestStore'
           /\ requestStore'[K].status # requestStore[K].status)
          => \E e \in pendingCallbacks : Callback(e) /\ e.body.state = K]_vars

\* C14 witness: a record whose status a callback has set is still in that
\* status right after another create has stored its own record.
C14_Witness ==
    \E K \in DOMAIN requestStore :
        /\ AppliedTo(K) # <<>>
        /\ requestStore[K].status = AppliedTo(K)[Len(AppliedTo(K))].body.code
        /\ requestStore[K].status # "request_created"
        /\ lastResp.ep = "create" /\ lastResp.http = 200
        /\ lastResp.body.requestId # K
        /\ lastResp.body.requestId \in DOMAIN requestStore

\* the fields of a record that its create fixes
CreationFields(request) ==
    IF svc = "issue"
    THEN <<request.type, request.created, request.data, request.userData, request.pin>>
    ELSE <<request.type, request.created, request.data, request.options>>

\* C15: the fields fixed at creation (type, created, data, and userData and
\* pin in the issue service, options in the verify service) are changed by no
\* step, whatever callbacks and status queries are handled.
C15_CreationFieldsKept ==
    [][\A K \in DOMAIN requestStore :
          K \in DOMAIN requestStore'
          => CreationFields(requestStore'[K]) = CreationFields(requestStore[K])]_vars

\* C15 witness: two callbacks have been applied to a record and a status query
\* for it is answered with the record's type and creation time.
C15_Witness ==
    \E K \in DOMAIN requestStore :
        /\ Len(AppliedTo(K)) = 2
        /\ requestStore[K].updated # None
        /\ lastResp.ep = "status" /\ lastResp.req = K
        /\ lastResp.body.created = requestStore[K].created
        /\ lastResp.body.type = KindOf(svc)

\* C16: no step removes a key from the store.
C16_NeverRemoved ==
    [][DOMAIN requestStore \subseteq DOMAIN requestStore']_vars

\* C16 witness: after a success and then an error callback were applied to a
\* record, a status query still finds it.
C16_Witness ==
    \E K \in DOMAIN requestStore :
        /\ Len(AppliedTo(K)) = 2
        /\ AppliedTo(K)[2].body.code \in {"issuance_error", "presentation_error"}
        /\ lastResp.ep = "status" /\ lastResp.req = K /\ lastResp.http = 200

\* the create requests answered with a failure
FailedCreates ==
    {c \in creates : c.pc = "done" /\ c.resp = Some([http |-> 500, success |-> FALSE])}

\* C17: when token acquisition or the platform call of a create fails, the
\* caller is answered 500 with {success: false, error, message}, error
\* carrying the upstream message (a create route answers nothing else but 200
\* and the 401 of the identity gate); and nothing is retried: every create request
\* has made one token acquisition and at most one platform call, a create that
\* failed at the token none.
C17_FailureIs500NoRetry ==
    /\ \A c \in creates :
          /\ c.calls.token = 1
          /\ c.calls.post = IF c.requestId = Undefined THEN 0 ELSE 1
          /\ c.pc = "done" => c \in SucceededCreates \cup FailedCreates
    /\ (lastResp.ep = "create" /\ lastResp.http # 200
        /\ lastResp # Respond(lastResp.req, authRequired("create"))) =>
          /\ lastResp.http = 500
          /\ DOMAIN lastResp.body = {"success", "error", "message"}
          /\ lastResp.body.success = FALSE
          /\ lastResp.body.error[2] \in {"Failed to acquire access token", "Request failed"}
          /\ \E c \in FailedCreates :
                lastResp.body.error[2] =
                   IF c.calls.post = 0 THEN "Failed to acquire access token"
                   ELSE "Request failed"

\* C17 witness: a create whose platform call failed has been answered 500 with
\* the upstream message, after one token acquisition and one platform call.
C17_Witness ==
    /\ lastResp.ep = "create" /\ lastResp.http = 500
    /\ lastResp.body.error[2] = "Request failed"
    /\ \E c \in FailedCreates : c.calls = [token |-> 1, post |-> 1]

\* C18: in the issue service a failed profile lookup or photo lookup does not
\* fail the request.  /api/issue-credential goes on to the create-request
\* path, with the profile derived from the identity header when the profile
\* lookup failed and without a photo when the photo lookup failed; /api/user
\* answers 200 with the header-derived profile when the profile lookup failed.
C18_LookupFailureNotFatal ==
    [][svc = "issue" =>
       \A in \in ProtectedInputs :
          /\ (/\ Cardinality(creates') > Cardinality(creates)
              /\ \E c \in creates' \ creates : c.input = in[1]
              /\ IssueCredential(in[1], in[2], in[3])) =>
                \E c \in creates' \ creates :
                   /\ c.pc = "token" /\ c.calls.token = 1
                   /\ in[2] = None =>
                         [c.userData EXCEPT !.photo = Undefined]
                            = issueFallbackProfile(parseEasyAuthUser(in[1])[1])
                   /\ getUserPhoto(in[3]) = Null => ~Truthy(c.userData.photo)
          /\ (/\ lastResp'.ep = "user"
              /\ in[2] = None
              /\ lastResp'.req = in[1]
              /\ GetUser(in[1], in[2])) =>
                /\ lastResp'.http = 200
                /\ lastResp'.body.user =
                      userFallbackProfile(parseEasyAuthUser(in[1])[1])]_vars

\* C18 witness: a credential has been issued (the create answered success)
\* from the header-derived profile, without a photo, after both lookups failed.
C18_Witness ==
    /\ svc = "issue"
    /\ lastResp.ep = "create" /\ lastResp.http = 200
    /\ lastResp.req = HeaderBob
    /\ \E K \in DOMAIN requestStore :
          requestStore[K].userData = issueFallbackProfile(parseEasyAuthUser(HeaderBob)[1])

\* C19 (as claimed): every create request eventually receives a response, also
\* when the platform never answers the outbound call.
C19_CreateEventuallyAnswered ==
    \A r \in 1..MaxConcurrentCreates :
        (\E c \in creates : c.req = r) ~> (\E c \in creates : c.req = r /\ c.pc = "done")

\* C19, for creates that are still acquiring the token: each of them leaves
\* that wait, with an answer or with the platform call made.  This part of the
\* claim holds.
C19_TokenWaitEnds ==
    \A r \in 1..MaxConcurrentCreates :
        (\E c \in creates : c.req = r /\ c.pc = "token")
           ~> (\E c \in creates : c.req = r /\ c.pc # "token")

\* the JSON error bodies of the two services: {error, message},
\* {success: false, error}, {success: false, error, message}
JsonError(body) ==
    /\ "error" \in DOMAIN body
    /\ DOMAIN body \subseteq {"success", "error", "message"}
    /\ "success" \in DOMAIN body => body.success = FALSE

\* C20 (as claimed): no request makes the process stop serving, every error
\* answer of every endpoint is a JSON error response, and a failing request
\* leaves the store as it was.
C20_ErrorsAreJsonAndHarmless ==
    /\ [](lastResp.http >= 400 => JsonError(lastResp.body))
    /\ [][/\ phase' = phase
          /\ lastResp'.http >= 400 => requestStore' = requestStore]_vars

\* C20, for every answer but that of a callback handler: this part of the
\* claim holds, and so does "no request stops the process".
C20_HoldsOutsideCallbacks ==
    /\ [](lastResp.http >= 400 /\ lastResp.ep # "callback" => JsonError(lastResp.body))
    /\ [][/\ phase' = phase
          /\ (lastResp'.http >= 400 /\ lastResp'.ep # "callback")
                => requestStore' = requestStore]_vars

\* the callback carries the success code and a non-empty verifiedCredentialsData
CarriesResult(body) ==
    /\ body.code = "presentation_verified"
    /\ body.hasVcd
    /\ Len(body.verifiedCredentialsData) > 0

\* C23: a callback step changes result fields only on the success status.  In
\* the verify service verifiedCredential changes only in a callback with code
\* "presentation_verified" and a non-empty verifiedCredentialsData, and
\* faceCheckResult only when that first credential carries faceCheck; every
\* other callback changes status and updated alone.  In the issue service a
\* callback changes status and updated alone.
C23_ResultOnlyOnSuccess ==
    [][\A e \in pendingCallbacks :
          (Callback(e) /\ e.body.state \in DOMAIN requestStore) =>
             LET old == requestStore[e.body.state]
                 new == requestStore'[e.body.state]
                 framed == [new EXCEPT !.status = old.status, !.updated = old.updated]
             IN  IF svc = "issue" THEN framed = old
                 ELSE /\ new.verifiedCredential # old.verifiedCredential
                            => CarriesResult(e.body)
                      /\ new.faceCheckResult # old.faceCheckResult
                            => /\ CarriesResult(e.body)
                               /\ e.body.verifiedCredentialsData[1].faceCheck # None
                      /\ ~CarriesResult(e.body) => framed = old]_vars

\* C23 witness: a record holding a result has received an error callback that
\* carried credentials as well, and still holds the result of the earlier one.
C23_Witness ==
    \E K \in DOMAIN requestStore :
        /\ Len(AppliedTo(K)) = 2
        /\ CarriesResult(AppliedTo(K)[1].body)
        /\ AppliedTo(K)[2].body.code = "presentation_error"
        /\ AppliedTo(K)[2].body.hasVcd
        /\ requestStore[K].verifiedCredential =
              Some(ResultOf(AppliedTo(K)[1].body.verifiedCredentialsData[1]))
        /\ requestStore[K].verifiedCredential #
              Some(ResultOf(AppliedTo(K)[2].body.verifiedCredentialsData[1]))

\* C24: no callback for an issued id is lost.  Whenever a callback is handled
\* whose state is an id that a create handler has already sent to the platform,
\* its code is the record's status after the step, also while that create
\* handler still waits for the platform's answer.
C24_NoCallbackLost ==
    [][\A e \in pendingCallbacks :
          (Callback(e) /\ e.body.state \in issued) =>
             /\ e.body.state \in DOMAIN requestStore'
             /\ requestStore'[e.body.state].status = e.body.code]_vars

\* C24, the part that holds: a callback handled after the create handler has
\* stored the record sets the record's status to its code.
C24_AppliedOnceStored ==
    [][\A e \in pendingCallbacks :
          (Callback(e) /\ e.body.state \in DOMAIN requestStore) =>
             requestStore'[e.body.state].status = e.body.code]_vars

\* C24 case: a callback for an id whose create handler still awaits the
\* platform call has been answered 200 without a record to apply it to.
C24_Witness ==
    \E i \in 1..Len(cbLog) :
        /\ cbLog[i].body.state \in issued
        /\ ~cbLog[i].found
        /\ cbLog[i].http = 200
        /\ \E c \in creates : c.pc = "post" /\ c.requestId = cbLog[i].body.state

\* C25: a create that fails leaves the request store unchanged.  The step that
\* answers a create with the 500 of a failed token acquisition or platform call
\* does not change the store; no record is ever stored for the id a failed
\* create generated; and a status query for that id is answered 404.
C25_FailedCreateStoresNothing ==
    /\ [](\A c \in FailedCreates :
             /\ c.requestId \notin DOMAIN requestStore
             /\ (c.requestId # Undefined /\ lastResp.ep = "status"
                 /\ lastResp.req = c.requestId) => lastResp.http = 404)
    /\ [][(creates' # creates /\ lastResp'.ep = "create" /\ lastResp'.http = 500)
             => requestStore' = requestStore]_vars

\* C25 witness: the platform call for a generated id failed while another
\* create stored its record, and a status query for the failed id got 404.
C25_Witness ==
    \E c \in FailedCreates :
        /\ c.requestId \in issued
        /\ DOMAIN requestStore # {}
        /\ lastResp.ep = "status" /\ lastResp.req = c.requestId
        /\ lastResp.http = 404

\* what the handler stores as faceCheckResult for a credential with faceCheck
FaceCheckOf(credentialData) ==
    [faceCheckPassed |-> credentialData.faceCheck[1].faceCheckPassed,
     confidence |-> credentialData.faceCheck[1].confidence]

\* the applied callbacks of r that wrote a result from an object credential
ResultWriters(r) ==
    {i \in 1..Len(AppliedTo(r)) :
        /\ CarriesResult(AppliedTo(r)[i].body)
        /\ AppliedTo(r)[i].body.verifiedCredentialsData[1].js = "object"}

\* C26: in the verify service, whenever a record has both verifiedCredential
\* and faceCheckResult, one and the same callback wrote both: the
\* faceCheckResult is the face check of the credential that is served as
\* verifiedCredential.
C26_FaceCheckOfServedCredential ==
    svc = "verify" =>
       \A K \in DOMAIN requestStore :
          (requestStore[K].verifiedCredential # None
           /\ requestStore[K].faceCheckResult # None) =>
             \E i \in ResultWriters(K) :
                LET credentialData == AppliedTo(K)[i].body.verifiedCredentialsData[1]
                IN  /\ credentialData.faceCheck # None
                    /\ requestStore[K].verifiedCredential = Some(ResultOf(credentialData))
                    /\ requestStore[K].faceCheckResult = Some(FaceCheckOf(credentialData))

\* C26 case: the status endpoint serves the credential of the second callback
\* next to the face check of the first one.
C26_Witness ==
    /\ svc = "verify"
    /\ lastResp.ep = "status" /\ lastResp.http = 200
    /\ LET K == lastResp.req
       IN  /\ Len(AppliedTo(K)) = 2
           /\ ResultWriters(K) = {1, 2}
           /\ AppliedTo(K)[1].body.verifiedCredentialsData[1].faceCheck # None
           /\ AppliedTo(K)[2].body.verifiedCredentialsData[1].faceCheck = None
           /\ lastResp.body.verifiedCredential =
                 Some(ResultOf(AppliedTo(K)[2].body.verifiedCredentialsData[1]))
           /\ lastResp.body.faceCheckResult =
                 Some(FaceCheckOf(AppliedTo(K)[1].body.verifiedCredentialsData[1]))

\* C26, the part that holds: a faceCheckResult in a record is the face check
\* of a credential that some applied callback carried with the success code.
C26_FaceCheckFromSomeCallback ==
    svc = "verify" =>
       \A K \in DOMAIN requestStore :
          requestStore[K].faceCheckResult # None =>
             \E i \in ResultWriters(K) :
                LET credentialData == AppliedTo(K)[i].body.verifiedCredentialsData[1]
                IN  /\ credentialData.faceCheck # None
                    /\ requestStore[K].faceCheckResult = Some(FaceCheckOf(credentialData))

\* the largest element of a non-empty set of numbers
Last(S) == CHOOSE i \in S : \A j \in S : j <= i

\* the result writers of r whose credential carried a face check
FaceCheckWriters(r) ==
    {i \in ResultWriters(r) :
        AppliedTo(r)[i].body.verifiedCredentialsData[1].faceCheck # None}

\* C27 (as claimed): in the verify service a record has, and the status
\* endpoint reports, a non-null verifiedCredential or faceCheckResult only
\* while the status is "presentation_verified".
C27_ResultOnlyWhileVerified ==
    svc = "verify" =>
       /\ \A K \in DOMAIN requestStore :
             requestStore[K].status # "presentation_verified" =>
                /\ requestStore[K].verifiedCredential = None
                /\ requestStore[K].faceCheckResult = None
       /\ (lastResp.ep = "status" /\ lastResp.http = 200
           /\ lastResp.body.status # "presentation_verified") =>
             /\ lastResp.body.verifiedCredential = None
             /\ lastResp.body.faceCheckResult = None

\* C27 (amended): in the verify service a result field is non-null only once
\* a success callback wrote it, and it then stays whatever the later status:
\* verifiedCredential is the credential of the last applied callback that
\* carried "presentation_verified" and an object credential, null when there
\* was none; faceCheckResult is the face check of the last such callback whose
\* credential carried one, null when there was none; the status endpoint
\* reports exactly these two fields of the record.
C27_ResultSinceVerified ==
    svc = "verify" =>
       /\ \A K \in DOMAIN requestStore :
             /\ requestStore[K].verifiedCredential =
                   IF ResultWriters(K) = {} THEN None
                   ELSE Some(ResultOf(
                          AppliedTo(K)[Last(ResultWriters(K))].body.verifiedCredentialsData[1]))
             /\ requestStore[K].faceCheckResult =
                   IF FaceCheckWriters(K) = {} THEN None
                   ELSE Some(FaceCheckOf(
                          AppliedTo(K)[Last(FaceCheckWriters(K))].body.verifiedCredentialsData[1]))
       /\ (lastResp.ep = "status" /\ lastResp.http = 200) =>
             /\ lastResp.body.verifiedCredential =
                   requestStore[lastResp.req].verifiedCredential
             /\ lastResp.body.faceCheckResult =
                   requestStore[lastResp.req].faceCheckResult

\* C27 witness: the status endpoint reports status "presentation_error"
\* together with the result a success callback wrote before.
C27_Witness ==
    /\ svc = "verify"
    /\ lastResp.ep = "status" /\ lastResp.http = 200
    /\ lastResp.body.status = "presentation_error"
    /\ lastResp.body.verifiedCredential # None
    /\ lastResp.body.faceCheckResult # None
    /\ ResultWriters(lastResp.req) = {1}
    /\ Len(AppliedTo(lastResp.req)) = 2

\* C28: a callback for id K changes no record other than K's.  A callback
\* step neither adds nor removes a key, and every record stored under another
\* key is the same record after the step, also while creates for other ids are
\* in flight.
C28_OtherRecordsUntouched ==
    [][\A e \in pendingCallbacks :
          (cbLog' # cbLog /\ Callback(e)) =>
             /\ DOMAIN requestStore' = DOMAIN requestStore
             /\ \A k \in DOMAIN requestStore \ {e.body.state} :
                   requestStore'[k] = requestStore[k]]_vars

\* C28 witness: two records are stored, a callback has been applied to one of
\* them, and the other one is as its create stored it.
C28_Witness ==
    \E K \in DOMAIN requestStore, J \in DOMAIN requestStore :
        /\ K # J
        /\ Len(AppliedTo(K)) = 1
        /\ requestStore[K].status = AppliedTo(K)[1].body.code
        /\ requestStore[J].status = "request_created"
        /\ requestStore[J].updated = None

\* the photo the lookup order of the claim yields: the largest size variant
\* Graph serves, else the default photo, else null
FirstServed(avail) ==
    IF "240x240" \in avail THEN "b64uri:photo-240x240"
    ELSE IF "120x120" \in avail THEN "b64uri:photo-120x120"
    ELSE IF "96x96" \in avail THEN "b64uri:photo-96x96"
    ELSE IF "64x64" \in avail THEN "b64uri:photo-64x64"
    ELSE IF "48x48" \in avail THEN "b64uri:photo-48x48"
    ELSE IF "default" \in avail THEN "b64uri:photo-default"
    ELSE Null

\* C22: the photo lookup tries 240x240, 120x120, 96x96, 64x64, 48x48 in that
\* order and returns the first that Graph serves, then the default photo; it
\* returns null when nothing is served, and it never raises: whatever Graph
\* serves, POST /api/issue-credential goes on to create the request, with the
\* photo found in the claims, or with the profile's own photo field when the
\* lookup returned null.
C22_PhotoLookupOrder ==
    /\ [](\A avail \in SUBSET PhotoResources : getUserPhoto(avail) = FirstServed(avail))
    /\ [][\A in \in PhotoInputs :
             (Cardinality(creates') > Cardinality(creates)
              /\ IssueCredential(in[1], in[2], in[3])) =>
                \E c \in creates' \ creates :
                   c.userData.photo =
                      IF FirstServed(in[3]) # Null THEN FirstServed(in[3])
                      ELSE IF in[2] = None THEN Undefined ELSE Null]_vars

\* C22 witness: a create is under way whose claims carry the 64x64 photo,
\* which Graph served after refusing the three larger sizes.
C22_Witness ==
    \E c \in creates :
        /\ svc = "issue"
        /\ c.input = HeaderJane
        /\ c.userData.photo = "b64uri:photo-64x64"
        /\ getUserPhoto({"64x64", "48x48", "default"}) = "b64uri:photo-64x64"

\* the headers of the model that are present but do not decode to an object
UndecodableKinds == {"notjson", "null", "scalar"}

\* C29: a present identity header that cannot be decoded (not base64 JSON, or
\* JSON that is not an object) is treated as unauthenticated: every answer of
\* a protected endpoint to it is the 401, and no create request (hence no
\* outbound call and no record) stems from it.
C29_UndecodableIs401 ==
    svc = "issue" =>
       /\ (lastResp.ep \in {"user", "create"} /\ lastResp.req.kind \in UndecodableKinds)
             => lastResp = Respond(lastResp.req, authRequired(lastResp.ep))
       /\ \A c \in creates : c.pc # "done" => c.input.kind \notin UndecodableKinds

\* C29, the part that holds: a header that is no JSON, or is the JSON null, is
\* answered 401 and starts no create request.
C29_UnparsableIs401 ==
    svc = "issue" =>
       /\ (lastResp.ep \in {"user", "create"} /\ lastResp.req.kind \in {"notjson", "null"})
             => lastResp = Respond(lastResp.req, authRequired(lastResp.ep))
       /\ \A c \in creates : c.pc # "done" => c.input.kind \notin {"notjson", "null"}

\* C29 case: POST /api/issue-credential with a header that decodes to a JSON
\* scalar was answered 200 after its record was stored.
C29_Witness ==
    /\ svc = "issue"
    /\ lastResp.ep = "create"
    /\ lastResp.req.kind = "scalar"
    /\ lastResp.http = 200
    /\ lastResp.body.requestId \in DOMAIN requestStore

\* C21 (as claimed): a service listens only when every setting it needs is
\* present.  Whenever the service handles requests, each setting it reads
\* without a default has a value, so the callback url it sends to the platform
\* starts with the configured APP_URL; and a process that found a setting
\* missing has exited without handling a request or using the store.
C21_ListensOnlyWhenConfigured ==
    /\ phase = "listening" => settingsRead(svc) \subseteq env.set
    /\ \A c \in creates : c.pc = "post" => callbackUrl(svc, env)[1] # Undefined
    /\ phase = "exited" =>
          /\ requestStore = <<>> /\ creates = {} /\ cbLog = <<>>
          /\ lastResp = NoResponse

\* C21, the part that holds: if a variable of the service's own requiredEnvVars
\* list is absent, the process exits before any request is handled and before
\* the store is used; it listens when none of them is absent.
C21_ExitsWhenListedMissing ==
    /\ phase = "listening" <=> missingVars(svc, env) = {}
    /\ phase = "exited" =>
          /\ requestStore = <<>> /\ creates = {} /\ cbLog = <<>>
          /\ lastResp = NoResponse

\* C21 case: issue-app, started without APP_URL, has stored a record after
\* sending the platform a callback url that starts with "undefined".
C21_Witness ==
    /\ svc = "issue"
    /\ "APP_URL" \notin env.set
    /\ phase = "listening"
    /\ callbackUrl(svc, env) = <<Undefined, "/api/request-callback">>
    /\ UuidNames[1] \in DOMAIN requestStore

\* the effective PIN length the texts of the model stand for: the integer the
\* text starts with when it is in 0..6, else 4
LengthOfText(text) ==
    CASE text = "0" -> 0
      [] text = "2" -> 2
      [] text = "3abc" -> 3
      [] text = "6" -> 6
      [] OTHER -> 4

\* the texts of the model that are decimal numerals
NumericTexts == {"0", "2", "6", "7", "-1"}

\* value is a decimal numeral of exactly n digits without a leading zero
HasDigits(value, n) ==
    /\ Len(value) = n
    /\ \A i \in 1..n : value[i] \in 0..9
    /\ value[1] # 0

\* every PIN of the run fits the effective length n: a create past the token
\* sends a PIN of n digits (none when n is 0), the record holds its value
\* (null when n is 0), and the create response and every status response
\* carry the pin of the record
PinsFit(n) ==
    /\ \A c \in creates :
          c.pc = "post" =>
             IF n = 0 THEN c.pin = None
             ELSE /\ c.pin # None
                  /\ c.pin[1].length = n
                  /\ HasDigits(c.pin[1].value, n)
    /\ \A K \in DOMAIN requestStore :
          IF n = 0 THEN requestStore[K].pin = None
          ELSE /\ requestStore[K].pin # None
               /\ HasDigits(requestStore[K].pin[1], n)
    /\ (lastResp.ep = "create" /\ lastResp.http = 200) =>
          lastResp.body.pin = requestStore[lastResp.body.requestId].pin
    /\ (lastResp.ep = "status" /\ lastResp.http = 200) =>
          lastResp.body.pin = requestStore[lastResp.req].pin

\* C30 (as claimed): the effective PIN length is in 0..6, and it is 4 when the
\* setting is absent, non-numeric or out of range; PINs have that many digits
\* and are served unchanged; no PIN when the length is 0.
C30_PinLengthDefaultsOnNonNumeric ==
    svc = "issue" =>
       /\ pinCodeLength \in 0..6
       /\ (env.pin \notin NumericTexts \/ parseInt(env.pin).val \notin 0..6)
             => pinCodeLength = 4
       /\ PinsFit(pinCodeLength)

\* C30 (amended): the effective PIN length is in 0..6: it is the integer the
\* setting starts with when that is in 0..6 ("3abc" gives 3), and 4 when the
\* setting is absent or empty, starts with no integer, or that integer is out
\* of range.  When it is n > 0 every generated PIN has exactly n decimal
\* digits and no leading zero, and the pin returned by create and by every
\* later status query is the stored value, which no step changes; when it is
\* 0 no pin is sent and pin is null.
C30_PinLength ==
    /\ [](svc = "issue" =>
             /\ pinCodeLength \in 0..6
             /\ pinCodeLength = LengthOfText(env.pin)
             /\ PinsFit(pinCodeLength))
    /\ [][svc = "issue" =>
             \A K \in DOMAIN requestStore :
                K \in DOMAIN requestStore' /\ requestStore'[K].pin = requestStore[K].pin]_vars

\* C30 witness: with the length text "3abc" a three-digit PIN was returned by
\* create and, after a callback, the status endpoint returned the same PIN.
C30_Witness ==
    /\ svc = "issue"
    /\ env.pin = "3abc"
    /\ lastResp.ep = "status" /\ lastResp.http = 200
    /\ lastResp.body.status = "issuance_successful"
    /\ lastResp.body.pin # None
    /\ Len(lastResp.body.pin[1]) = 3

====
